---- MODULE Spec2Model ----
(***************************************************************************)
(* A model of llamaindex/kb_mcp_server.py: the text utilities, the chunker *)
(* (split_text), the HTML sectionizer (html_to_sections) and the index     *)
(* facade with its four tool handlers.                                     *)
(*                                                                         *)
(* A Python str is a sequence of one-character strings.  Offsets of the    *)
(* source are 0-based; text[a:b] is SubSeq(text, a + 1, b).                *)
(***************************************************************************)
EXTENDS Integers, Sequences, FiniteSets, TLC

\* ------------------------------------------------------------------------
\* Bounds of the model
\* ------------------------------------------------------------------------

\* longest text handed to split_text in SpecSplit
MaxLen == 4
\* largest max_chars and overlap handed to split_text in SpecSplit
MaxParam == 3
\* turns a stalled split_text loop may take before the model stops it
MaxStall == 6
\* most nodes of a document handed to html_to_sections in SpecSections
MaxNodes == 4
\* most units the index holds in Spec
MaxUnits == 3
\* most units the index holds in SpecSearch
MaxSearchUnits == 21

\* ------------------------------------------------------------------------
\* Variables
\* ------------------------------------------------------------------------

VARIABLES
    \* split_text: its arguments, its locals, and where the call stands
    text, max_chars, overlap, start, chunks, spans, windows, split_pc,
    \* html_to_sections: the parsed document, the number of selected elements
    \* the for loop has consumed, its locals, and where the call stands
    html, pos, heading_stack, sections, current_lines, current_path, sect_pc,
    \* the server: whether the process runs, its index object, the files under
    \* persist_dir, the tool call served last with what it returned, and the
    \* calls that tool call made on the index and on persist, in order; and
    \* the latest time _now_iso() gave
    up, index, persist_dir, call, ret, log, clock

split_vars == <<text, max_chars, overlap, start, chunks, spans, windows, split_pc>>

sect_vars == <<html, pos, heading_stack, sections, current_lines, current_path, sect_pc>>

kb_vars == <<up, index, persist_dir, call, ret, log, clock>>

vars == <<split_vars, sect_vars, kb_vars>>

\* no call of split_text is under way
SplitIdle ==
    /\ text = <<>>
    /\ max_chars = 0
    /\ overlap = 0
    /\ start = 0
    /\ chunks = <<>>
    /\ spans = <<>>
    /\ windows = <<>>
    /\ split_pc = "idle"

\* no call of html_to_sections is under way
SectIdle ==
    /\ html = <<>>
    /\ pos = 0
    /\ heading_stack = <<>>
    /\ sections = <<>>
    /\ current_lines = <<>>
    /\ current_path = <<>>
    /\ sect_pc = "idle"

\* what the process holds when it does not run
NoIndex == [vector_store |-> <<>>, docstore |-> <<>>]

NoCall == [op |-> "none"]

\* the server was never started on persist_dir
KbAbsent ==
    /\ up = FALSE
    /\ index = NoIndex
    /\ persist_dir = [faiss_exists |-> FALSE, faiss_index |-> <<>>,
                      store_exists |-> FALSE, docstore |-> <<>>]
    /\ call = NoCall
    /\ ret = NoCall
    /\ log = <<>>
    /\ clock = 1

\* ------------------------------------------------------------------------
\* Utilities
\* ------------------------------------------------------------------------

\* what str.strip() and the regex class \s take for whitespace
IsSpace(c) == c \in {" ", "\n", "\t"}

Rep(c, n) == [i \in 1..n |-> c]

Min2(a, b) == IF a <= b THEN a ELSE b

Max2(a, b) == IF a >= b THEN a ELSE b

\* index of the first non-whitespace character at or after i (Len(s) + 1: none)
RECURSIVE FirstNonSpace(_, _)
FirstNonSpace(s, i) ==
    IF i > Len(s) \/ ~IsSpace(s[i]) THEN i ELSE FirstNonSpace(s, i + 1)

\* index of the last non-whitespace character at or before i (0: none)
RECURSIVE LastNonSpace(_, _)
LastNonSpace(s, i) ==
    IF i < 1 \/ ~IsSpace(s[i]) THEN i ELSE LastNonSpace(s, i - 1)

\* str.strip()
Strip(s) == SubSeq(s, FirstNonSpace(s, 1), LastNonSpace(s, Len(s)))

\* re.sub(r"\s+", " ", s): every maximal run of whitespace becomes one space
CollapseSpace(s) ==
    LET idx  == [i \in 1..Len(s) |-> i]
        kept == SelectSeq(idx, LAMBDA i : ~IsSpace(s[i]) \/ i = 1 \/ ~IsSpace(s[i - 1]))
    IN  [j \in 1..Len(kept) |-> IF IsSpace(s[kept[j]]) THEN " " ELSE s[kept[j]]]

_clean_text(s) == Strip(CollapseSpace(s))

\* sep.join(parts)
RECURSIVE Join(_, _)
Join(sep, parts) ==
    IF parts = <<>> THEN <<>>
    ELSE IF Len(parts) = 1 THEN parts[1]
    ELSE parts[1] \o sep \o Join(sep, Tail(parts))

\* ------------------------------------------------------------------------
\* split_text
\* ------------------------------------------------------------------------

\* the locals of split_text on entering its while loop
SplitEnter == [start |-> 0, chunks |-> <<>>, spans |-> <<>>, windows |-> <<>>, done |-> FALSE]

\* split_text with its advance off by one: the next window starts one
\* character too far
SplitStepOffByOne(t, mc, ov, s) ==
    IF ~(s.start < Len(t)) THEN [s EXCEPT !.done = TRUE]
    ELSE
    LET end    == Min2(Len(t), s.start + mc)
        window == SubSeq(t, s.start + 1, end)
        lo     == FirstNonSpace(window, 1)
        hi     == LastNonSpace(window, Len(window))
        chunk  == Strip(window)
        s1     == [s EXCEPT !.windows = Append(@, <<s.start + 1, end>>)]
        s2     == IF chunk # <<>>
                  THEN [s1 EXCEPT !.chunks = Append(@, chunk),
                                  !.spans = Append(@, <<s.start + lo, s.start + hi>>)]
                  ELSE s1
    IN  IF end = Len(t) THEN [s2 EXCEPT !.done = TRUE]
        ELSE [s2 EXCEPT !.start = Max2(0, end + 1 - ov)]

\* One evaluation of the while loop of split_text: its test and, when the test
\* holds, its body.  spans and windows record where each appended chunk and
\* each window lies in text, as 1-based closed intervals.
SplitStep(t, mc, ov, s) ==
    IF ~(s.start < Len(t)) THEN [s EXCEPT !.done = TRUE]
    ELSE
    LET end    == Min2(Len(t), s.start + mc)
        window == SubSeq(t, s.start + 1, end)
        lo     == FirstNonSpace(window, 1)
        hi     == LastNonSpace(window, Len(window))
        chunk  == Strip(window)
        s1     == [s EXCEPT !.windows = Append(@, <<s.start + 1, end>>)]
        s2     == IF chunk # <<>>
                  THEN [s1 EXCEPT !.chunks = Append(@, chunk),
                                  !.spans = Append(@, <<s.start + lo, s.start + hi>>)]
                  ELSE s1
    IN  IF end = Len(t) THEN [s2 EXCEPT !.done = TRUE]
        ELSE [s2 EXCEPT !.start = Max2(0, end - ov)]

RECURSIVE SplitLoop(_, _, _, _)
SplitLoop(t, mc, ov, s) ==
    IF s.done THEN s.chunks ELSE SplitLoop(t, mc, ov, SplitStep(t, mc, ov, s))

\* split_text(text, max_chars, overlap) as a function, for callers whose
\* parameters let the loop end
split_text(t, mc, ov) ==
    IF Len(t) <= mc THEN <<t>> ELSE SplitLoop(t, mc, ov, SplitEnter)

\* --- split_text step by step --------------------------------------------

Chars == {"a", " "}

Texts == UNION {[1..n -> Chars] : n \in 0..MaxLen}

InitSplit ==
    /\ text \in Texts
    /\ max_chars \in 0..MaxParam
    /\ overlap \in 0..MaxParam
    /\ start = 0
    /\ chunks = <<>>
    /\ spans = <<>>
    /\ windows = <<>>
    /\ split_pc = "call"
    /\ SectIdle
    /\ KbAbsent

\* if len(text) <= max_chars: return [text]
SplitWhole ==
    /\ split_pc = "call"
    /\ Len(text) <= max_chars
    /\ chunks' = <<text>>
    /\ spans' = <<<<1, Len(text)>>>>
    /\ windows' = <<<<1, Len(text)>>>>
    /\ split_pc' = "done"
    /\ UNCHANGED <<text, max_chars, overlap, start>>
    /\ UNCHANGED <<sect_vars, kb_vars>>

\* chunks = []; start = 0
SplitBegin ==
    /\ split_pc = "call"
    /\ ~(Len(text) <= max_chars)
    /\ start' = SplitEnter.start
    /\ chunks' = SplitEnter.chunks
    /\ spans' = SplitEnter.spans
    /\ windows' = SplitEnter.windows
    /\ split_pc' = "loop"
    /\ UNCHANGED <<text, max_chars, overlap>>
    /\ UNCHANGED <<sect_vars, kb_vars>>

\* one turn of the while loop; the model stops a loop after MaxLen + MaxStall
\* turns (a loop that advances takes at most Len(text) of them)
SplitIter ==
    /\ split_pc = "loop"
    /\ Len(windows) < MaxLen + MaxStall
    /\ LET s == SplitStep(text, max_chars, overlap,
                          [start |-> start, chunks |-> chunks, spans |-> spans,
                           windows |-> windows, done |-> FALSE])
       IN  /\ start' = s.start
           /\ chunks' = s.chunks
           /\ spans' = s.spans
           /\ windows' = s.windows
           /\ split_pc' = IF s.done THEN "done" ELSE "loop"
    /\ UNCHANGED <<text, max_chars, overlap>>
    /\ UNCHANGED <<sect_vars, kb_vars>>

NextSplit == SplitWhole \/ SplitBegin \/ SplitIter

SpecSplit == InitSplit /\ [][NextSplit]_vars

\* --- claims about split_text --------------------------------------------

InSomeInterval(i, intervals) ==
    \E k \in 1..Len(intervals) : intervals[k][1] <= i /\ i <= intervals[k][2]

SplitReturned == split_pc = "done"

SplitWellFormed == overlap >= 0 /\ max_chars > overlap

\* C3 as stated: once split_text(text, max_chars, overlap) has returned, with
\* overlap >= 0 and max_chars > overlap, every character position of text
\* lies in at least one returned chunk.
C3_EveryPositionInAChunk ==
    (SplitReturned /\ SplitWellFormed) =>
        \A i \in 1..Len(text) : InSomeInterval(i, spans)

\* C3 as amended: once split_text has returned, with overlap >= 0 and
\* max_chars > overlap, every chunk is the text of its span, every position
\* holding a non-whitespace character lies in at least one chunk, and every
\* position lies in at least one window: the first window starts at offset 0,
\* each next one starts max_chars - overlap after the one before, and the
\* last one ends at len(text).
C3_NonSpaceCoverage ==
    (SplitReturned /\ SplitWellFormed) =>
        /\ Len(spans) = Len(chunks)
        /\ \A k \in 1..Len(chunks) : chunks[k] = SubSeq(text, spans[k][1], spans[k][2])
        /\ \A i \in 1..Len(text) : ~IsSpace(text[i]) => InSomeInterval(i, spans)
        /\ \A i \in 1..Len(text) : InSomeInterval(i, windows)
        /\ Len(windows) >= 1
        /\ windows[1][1] = 1
        /\ windows[Len(windows)][2] = Len(text)
        /\ \A k \in 2..Len(windows) :
               windows[k][1] = windows[k - 1][1] + (max_chars - overlap)

\* a text longer than max_chars was cut into overlapping windows, one of
\* which lost whitespace at its edge
C3_Witness ==
    /\ SplitReturned
    /\ SplitWellFormed
    /\ overlap >= 1
    /\ Len(text) > max_chars
    /\ Len(chunks) >= 2
    /\ \E i \in 1..Len(text) : ~InSomeInterval(i, spans)

\* C4: split_text is guarded against overlap >= max_chars: on a text longer
\* than max_chars, every turn of its loop either ends the call or moves the
\* window start forward, so the call cannot stall.
C4_DegenerateGuarded ==
    [][(split_pc = "loop" /\ overlap >= max_chars /\ Len(text) > max_chars)
         => (split_pc' = "done" \/ start' > start)]_vars


\* ------------------------------------------------------------------------
\* html_to_sections
\* ------------------------------------------------------------------------
\* The parsed document (BeautifulSoup's tree below the chosen root, after
\* script, style, noscript and svg were removed) is the sequence of its nodes
\* in document order, each [name, text]: an element the selector of line 82
\* matches with the text inside it, or "#text" for text outside such elements.

HeadingLevel == [n \in {"h1", "h2", "h3", "h4", "h5", "h6"} |-> 
                    CASE n = "h1" -> 1 [] n = "h2" -> 2 [] n = "h3" -> 3
                      [] n = "h4" -> 4 [] n = "h5" -> 5 [] n = "h6" -> 6]

\* name.startswith("h"), among the names the selector matches
IsHeading(name) == name \in DOMAIN HeadingLevel

SelectedNames == DOMAIN HeadingLevel \cup {"p", "li", "pre", "code", "table"}

\* root.select("h1,h2,h3,h4,h5,h6,p,li,pre,code,table")
Selected(doc) == SelectSeq(doc, LAMBDA node : node.name \in SelectedNames)

\* el.get_text(sep, strip=True) of a node holding one piece of text
GetText(node) == Strip(node.text)

\* root.get_text("\n", strip=True)
RootText(doc) ==
    LET pieces == SelectSeq([i \in 1..Len(doc) |-> GetText(doc[i])], LAMBDA t : t # <<>>)
    IN  Join(<<"\n">>, pieces)

Titles(stack) == [i \in 1..Len(stack) |-> stack[i][2]]

\* the locals of html_to_sections before its for loop
SectEnter == [heading_stack |-> <<>>, sections |-> <<>>,
              current_lines |-> <<>>, current_path |-> <<>>]

\* flush()
Flush(st) ==
    LET txt == _clean_text(Join(<<"\n">>, st.current_lines))
        st1 == IF txt # <<>>
               THEN [st EXCEPT !.sections =
                        Append(@, [heading_path |-> st.current_path, text |-> txt])]
               ELSE st
    IN  [st1 EXCEPT !.current_lines = <<>>]

\* the pop loop closing only the headings deeper than the new one
RECURSIVE PopWhileDeeper(_, _)
PopWhileDeeper(stack, level) ==
    IF stack # <<>> /\ stack[Len(stack)][1] > level
    THEN PopWhileDeeper(SubSeq(stack, 1, Len(stack) - 1), level)
    ELSE stack

\* while heading_stack and heading_stack[-1][0] >= level: heading_stack.pop()
RECURSIVE PopWhile(_, _)
PopWhile(stack, level) ==
    IF stack # <<>> /\ stack[Len(stack)][1] >= level
    THEN PopWhile(SubSeq(stack, 1, Len(stack) - 1), level)
    ELSE stack

\* the heading branch pushing a heading whatever its title
HeadingStepNoSkip(st, el) ==
    LET st1   == Flush(st)
        level == HeadingLevel[el.name]
        title == _clean_text(GetText(el))
        stack == Append(PopWhile(st1.heading_stack, level), <<level, title>>)
    IN  [st1 EXCEPT !.heading_stack = stack, !.current_path = Titles(stack)]

\* the heading branch of the for loop
HeadingStep(st, el) ==
    LET st1   == Flush(st)
        level == HeadingLevel[el.name]
        title == _clean_text(GetText(el))
    IN  IF title = <<>> THEN st1
        ELSE LET stack == Append(PopWhile(st1.heading_stack, level), <<level, title>>)
             IN  [st1 EXCEPT !.heading_stack = stack, !.current_path = Titles(stack)]

\* the backquote character, which a string of this language cannot hold
BQ == "backquote"

\* the line a content element adds to current_lines (<<>>: none)
ContentLine(el) ==
    IF el.name = "li" THEN
        LET txt == _clean_text(GetText(el))
        IN  IF txt # <<>> THEN <<"-", " ">> \o txt ELSE <<>>
    ELSE IF el.name \in {"pre", "code"} THEN
        LET txt == GetText(el)
        IN  IF txt # <<>>
            THEN <<BQ, BQ, BQ, "t", "e", "x", "t", "\n">> \o txt \o <<"\n", BQ, BQ, BQ>>
            ELSE <<>>
    ELSE IF el.name = "table" THEN
        LET txt == _clean_text(GetText(el))
        IN  IF txt # <<>> THEN <<"[", "t", "a", "b", "l", "e", "]", " ">> \o txt ELSE <<>>
    ELSE _clean_text(GetText(el))

\* the content branches of the for loop
ContentStep(st, el) ==
    LET line == ContentLine(el)
    IN  IF line # <<>> THEN [st EXCEPT !.current_lines = Append(@, line)] ELSE st

\* one turn of the for loop
SectStep(st, el) ==
    IF IsHeading(el.name) THEN HeadingStep(st, el) ELSE ContentStep(st, el)

\* what follows the for loop: the last flush and the fallback section
SectFinish(st, doc) ==
    LET st1 == Flush(st)
        txt == _clean_text(RootText(doc))
    IN  IF st1.sections = <<>> /\ txt # <<>>
        THEN [st1 EXCEPT !.sections = <<[heading_path |-> <<>>, text |-> txt]>>]
        ELSE st1

RECURSIVE SectLoop(_, _, _)
SectLoop(st, els, k) ==
    IF k > Len(els) THEN st ELSE SectLoop(SectStep(st, els[k]), els, k + 1)

\* html_to_sections(html) as a function
html_to_sections(doc) == SectFinish(SectLoop(SectEnter, Selected(doc), 1), doc).sections

\* --- html_to_sections step by step --------------------------------------

Node(name, txt) == [name |-> name, text |-> txt]

Nodes == {Node("h1", <<"A">>), Node("h2", <<"B">>), Node("h2", <<" ">>),
          Node("p", <<"x">>), Node("p", <<"y">>), Node("li", <<"x">>),
          Node("pre", <<"x", "\n", "y">>), Node("table", <<"x", " ", " ", "y">>),
          Node("#text", <<"r">>)}

Documents == UNION {[1..n -> Nodes] : n \in 0..MaxNodes}

InitSections ==
    /\ html \in Documents
    /\ pos = 0
    /\ heading_stack = SectEnter.heading_stack
    /\ sections = SectEnter.sections
    /\ current_lines = SectEnter.current_lines
    /\ current_path = SectEnter.current_path
    /\ sect_pc = "loop"
    /\ SplitIdle
    /\ KbAbsent

SectLocals ==
    [heading_stack |-> heading_stack, sections |-> sections,
     current_lines |-> current_lines, current_path |-> current_path]

SectAssign(st) ==
    /\ heading_stack' = st.heading_stack
    /\ sections' = st.sections
    /\ current_lines' = st.current_lines
    /\ current_path' = st.current_path

\* the for loop meets a heading element
SectHeading ==
    /\ sect_pc = "loop"
    /\ pos < Len(Selected(html))
    /\ IsHeading(Selected(html)[pos + 1].name)
    /\ SectAssign(SectStep(SectLocals, Selected(html)[pos + 1]))
    /\ pos' = pos + 1
    /\ UNCHANGED <<html, sect_pc>>
    /\ UNCHANGED <<split_vars, kb_vars>>

\* the for loop meets a p, li, pre, code or table element
SectContent ==
    /\ sect_pc = "loop"
    /\ pos < Len(Selected(html))
    /\ ~IsHeading(Selected(html)[pos + 1].name)
    /\ SectAssign(SectStep(SectLocals, Selected(html)[pos + 1]))
    /\ pos' = pos + 1
    /\ UNCHANGED <<html, sect_pc>>
    /\ UNCHANGED <<split_vars, kb_vars>>

\* the for loop is over: flush, fall back, return
SectReturn ==
    /\ sect_pc = "loop"
    /\ pos = Len(Selected(html))
    /\ SectAssign(SectFinish(SectLocals, html))
    /\ sect_pc' = "done"
    /\ UNCHANGED <<html, pos>>
    /\ UNCHANGED <<split_vars, kb_vars>>

NextSections == SectHeading \/ SectContent \/ SectReturn

SpecSections == InitSections /\ [][NextSections]_vars


\* --- claims about html_to_sections --------------------------------------

\* a heading element the loop pushes: one whose normalized title is not empty
TitledHeading(el) == IsHeading(el.name) /\ _clean_text(GetText(el)) # <<>>

\* The breadcrumb after the first k elements, said without a stack: a titled
\* heading is open as long as no later titled heading has its level or a
\* shallower one.
Breadcrumb(els, k) ==
    LET open == SelectSeq([j \in 1..k |-> j], LAMBDA j :
                    /\ TitledHeading(els[j])
                    /\ \A m \in (j + 1)..k :
                          TitledHeading(els[m]) =>
                              HeadingLevel[els[m].name] > HeadingLevel[els[j].name])
    IN  [i \in 1..Len(open) |->
            <<HeadingLevel[els[open[i]].name], _clean_text(GetText(els[open[i]]))>>]

\* the lines of the content elements among the first k that follow the last
\* heading element among them
CollectedLines(els, k) ==
    LET after == SelectSeq([j \in 1..k |-> j], LAMBDA j :
                     /\ ~IsHeading(els[j].name)
                     /\ ContentLine(els[j]) # <<>>
                     /\ \A m \in (j + 1)..k : ~IsHeading(els[m].name))
    IN  [i \in 1..Len(after) |-> ContentLine(els[after[i]])]

\* the section the lines collected over the first k elements make
SectionAt(els, k) ==
    [heading_path |-> Titles(Breadcrumb(els, k)),
     text |-> _clean_text(Join(<<"\n">>, CollectedLines(els, k)))]

ExampleDoc == <<Node("h1", <<"A">>), Node("p", <<"x">>), Node("h2", <<"B">>), Node("p", <<"y">>)>>

ExampleSections == <<[heading_path |-> <<<<"A">>>>, text |-> <<"x">>],
                     [heading_path |-> <<<<"A">>, <<"B">>>>, text |-> <<"y">>]>>

C5_StackIsBreadcrumb ==
    sect_pc \in {"loop", "done"} =>
        /\ heading_stack = Breadcrumb(Selected(html), pos)
        /\ current_path = Titles(heading_stack)
        /\ \A i \in 1..(Len(heading_stack) - 1) : heading_stack[i][1] < heading_stack[i + 1][1]
        /\ (sect_pc = "loop" => current_lines = CollectedLines(Selected(html), pos))
        /\ ((sect_pc = "done" /\ html = ExampleDoc) => sections = ExampleSections)

\* a step that changes sections appends, after the sections emitted so far,
\* the section of the lines collected up to here under the breadcrumb in
\* force; the one other change is the fallback section of a document that
\* gave no section
C5_SectionAppended ==
    sections' # sections =>
        \/ sections' = Append(sections, SectionAt(Selected(html), pos))
        \/ /\ sect_pc' = "done"
           /\ sections = <<>>
           /\ _clean_text(Join(<<"\n">>, current_lines)) = <<>>
           /\ sections' = <<[heading_path |-> <<>>, text |-> _clean_text(RootText(html))]>>

\* C5: over any document-order sequence of headings and content blocks, the
\* heading stack is the breadcrumb of the headings met so far (a heading of
\* level L pops every entry of level >= L, then pushes itself), its levels
\* grow strictly from outermost to innermost, sections are emitted in
\* document order, each with the titles of the stack in force while its
\* lines were collected, and h1 A, p x, h2 B, p y gives the paths [A] and
\* [A, B] with the texts x and y.
C5_Breadcrumb == [](C5_StackIsBreadcrumb) /\ [][C5_SectionAppended]_vars

\* a nested heading closed its sibling and a section was emitted under the
\* two-level path
C5_Witness ==
    /\ sect_pc = "done"
    /\ Len(sections) >= 1
    /\ sections[Len(sections)].heading_path = <<<<"A">>, <<"B">>>>
    /\ \E k \in 1..Len(html) : \E j \in (k + 1)..Len(html) :
          html[k] = Node("h2", <<"B">>) /\ html[j] = Node("h2", <<"B">>)

\* the loop is about to meet a heading whose normalized title is empty
AtUntitledHeading ==
    /\ sect_pc = "loop"
    /\ pos < Len(Selected(html))
    /\ IsHeading(Selected(html)[pos + 1].name)
    /\ ~TitledHeading(Selected(html)[pos + 1])

\* C6 as stated: a heading whose normalized title is empty is skipped
\* entirely: meeting it flushes nothing and leaves the emitted sections, the
\* accumulated lines, the heading stack and the current path as they were.
C6_UntitledHeadingSkipped ==
    [][(AtUntitledHeading /\ pos' = pos + 1) =>
          UNCHANGED <<sections, current_lines, heading_stack, current_path>>]_vars

\* C6 as amended: meeting a heading whose normalized title is empty flushes
\* (the lines accumulated so far are emitted as a section under the current
\* path when their normalized text is not empty, and the accumulator is
\* emptied) and leaves the heading stack and the current path as they were.
C6_UntitledHeadingFlushes ==
    [][(AtUntitledHeading /\ pos' = pos + 1) =>
          /\ UNCHANGED <<heading_stack, current_path>>
          /\ current_lines' = <<>>
          /\ sections' =
                IF _clean_text(Join(<<"\n">>, current_lines)) # <<>>
                THEN Append(sections, [heading_path |-> current_path,
                                       text |-> _clean_text(Join(<<"\n">>, current_lines))])
                ELSE sections]_vars

\* an untitled heading between two paragraphs under one heading cut them into
\* two sections of the same path
C6_Witness ==
    /\ sect_pc = "done"
    /\ html = <<Node("h1", <<"A">>), Node("p", <<"x">>), Node("h2", <<" ">>), Node("p", <<"y">>)>>
    /\ Len(sections) = 2
    /\ sections[1].heading_path = <<<<"A">>>>
    /\ sections[2].heading_path = <<<<"A">>>>


\* ------------------------------------------------------------------------
\* The index, its persistence and the four tools
\* ------------------------------------------------------------------------
\* The index object is the rows of the FAISS index, each row the vector of
\* one node and held here as that node's id, and the docstore mapping a node
\* id to the node.  index.insert makes one node of one Document and gives it
\* an id no node has yet; the embedding and the ranking of neighbours belong
\* to the libraries and are not modelled.  persist_dir holds the file
\* faiss.index and the files of the storage context.

\* split_text's defaults
DefaultMaxChars == 2000
DefaultOverlap == 200
\* kb_search's largest similarity_top_k and the cut of its text
TopKMax == 20
PreviewLimit == 1500
\* the cut of kb_quote's text
QuoteLimit == 4000

\* s[:n]
Take(s, n) == SubSeq(s, 1, Min2(n, Len(s)))

\* str(n) of a natural number
Digit(d) == CASE d = 0 -> "0" [] d = 1 -> "1" [] d = 2 -> "2" [] d = 3 -> "3"
              [] d = 4 -> "4" [] d = 5 -> "5" [] d = 6 -> "6" [] d = 7 -> "7"
              [] d = 8 -> "8" [] d = 9 -> "9"

RECURSIVE Str(_)
Str(n) == IF n < 10 THEN <<Digit(n)>> ELSE Str(n \div 10) \o <<Digit(n % 10)>>

\* the byte b"\x00"
NUL == "NUL"

\* the bytes fed to the hash: every part with a NUL after it
RECURSIVE HashInput(_)
HashInput(parts) ==
    IF parts = <<>> THEN <<>> ELSE parts[1] \o <<NUL>> \o HashInput(Tail(parts))

\* the hash input with the parts run together, no NUL between them
HashInputUnseparated(parts) == Join(<<>>, parts)

\* _stable_id(*parts); SHA-1 is taken to be injective, so a digest is held as
\* the bytes it was computed from
_stable_id(parts) == HashInput(parts)

\* meta.update(extra) on a copy of meta
Merge(meta, extra) ==
    [k \in DOMAIN meta \cup DOMAIN extra |-> IF k \in DOMAIN extra THEN extra[k] ELSE meta[k]]

\* an id no node of the docstore has
FreshId(docstore) ==
    CHOOSE i \in 1..(Cardinality(DOMAIN docstore) + 1) : i \notin DOMAIN docstore

\* what a handler works on: the index object, the files, and its calls so far
World == [index |-> index, persist_dir |-> persist_dir, log |-> <<>>]

\* index.insert(Document(text, metadata))
IndexInsert(w, doc) ==
    LET id == FreshId(w.index.docstore)
    IN  [w EXCEPT !.index = [vector_store |-> Append(@.vector_store, id),
                             docstore |-> [i \in DOMAIN @.docstore \cup {id} |->
                                              IF i = id THEN doc ELSE @.docstore[i]]],
                  !.log = Append(@, [ev |-> "insert", node |-> id])]

\* index.storage_context.persist(persist_dir)
StoragePersist(w) ==
    [w EXCEPT !.persist_dir.store_exists = TRUE,
              !.persist_dir.docstore = w.index.docstore]

\* faiss.write_index(faiss_index, faiss_path)
FaissWrite(w) ==
    [w EXCEPT !.persist_dir.faiss_exists = TRUE,
              !.persist_dir.faiss_index = w.index.vector_store]

\* persist leaving faiss.index as it was
persistStorageOnly(w) ==
    [StoragePersist(w) EXCEPT !.log = Append(@, [ev |-> "persist", node |-> 0])]

\* persist(index, persist_dir)
persist(w) ==
    [FaissWrite(StoragePersist(w)) EXCEPT !.log = Append(@, [ev |-> "persist", node |-> 0])]

\* build_or_load_index making a new index whatever persist_dir holds
build_or_load_index_anew(pd) ==
    LET w == [index |-> NoIndex, persist_dir |-> pd, log |-> <<>>]
    IN  [StoragePersist(FaissWrite(w)) EXCEPT !.log = <<[ev |-> "persist", node |-> 0]>>]

\* build_or_load_index(persist_dir, embed_model)
build_or_load_index(pd) ==
    IF pd.faiss_exists
    THEN [index |-> [vector_store |-> pd.faiss_index, docstore |-> pd.docstore],
          persist_dir |-> pd, log |-> <<>>]
    ELSE LET w == [index |-> NoIndex, persist_dir |-> pd, log |-> <<>>]
         IN  [StoragePersist(FaissWrite(w)) EXCEPT !.log = <<[ev |-> "persist", node |-> 0]>>]

\* --- requests -----------------------------------------------------------

\* what _now_iso() may give, in seconds; it never gives less than it gave
Times == {1, 2}

\* extra_metadata None (or empty)
NoExtra == <<>>

\* page_title None; `page_title or ""` makes it the empty string
NoTitle == <<>>

LongText == Rep("a", QuoteLimit + 1)

\* a paragraph longer than DefaultMaxChars, with a space where the first
\* window ends
LongParagraph == Rep("a", DefaultMaxChars - 1) \o <<" ">> \o Rep("b", 100)

DocOne == <<Node("h1", <<"A">>), Node("p", <<"x">>)>>

DocTwo == <<Node("h1", <<"A">>), Node("p", <<"x">>), Node("h2", <<"B">>), Node("p", <<"y">>)>>

DocLong == <<Node("h1", <<"A">>), Node("p", LongParagraph), Node("h2", <<"B">>), Node("p", <<"y">>)>>

DocLoose == <<Node("#text", <<"r">>)>>

TextRequests ==
    {[source_id |-> <<"s">>, text |-> <<"h", "i">>, extra_metadata |-> NoExtra],
     [source_id |-> <<"s">>, text |-> LongText, extra_metadata |-> NoExtra],
     [source_id |-> <<"s">>, text |-> <<"h", "i">>,
      extra_metadata |-> [source_id |-> <<"o">>]]}

HtmlRequests ==
    {[url |-> <<"u">>, html |-> DocOne, page_title |-> NoTitle, extra_metadata |-> NoExtra],
     [url |-> <<"u">>, html |-> DocTwo, page_title |-> <<"T">>,
      extra_metadata |-> [tag |-> <<"k">>]],
     [url |-> <<"u">>, html |-> DocTwo, page_title |-> NoTitle,
      extra_metadata |-> [section_id |-> <<"f">>]],
     [url |-> <<"v">>, html |-> DocLong, page_title |-> <<"T">>, extra_metadata |-> NoExtra],
     [url |-> <<"v">>, html |-> DocLoose, page_title |-> NoTitle, extra_metadata |-> NoExtra],
     [url |-> <<"v">>, html |-> <<>>, page_title |-> NoTitle, extra_metadata |-> NoExtra]}

\* --- the process --------------------------------------------------------

Init == SplitIdle /\ SectIdle /\ KbAbsent

\* main(): the process starts and opens persist_dir
Open ==
    /\ ~up
    /\ persist_dir.faiss_exists => persist_dir.store_exists
    /\ LET w == build_or_load_index(persist_dir)
       IN  /\ index' = w.index
           /\ persist_dir' = w.persist_dir
           /\ log' = w.log
    /\ up' = TRUE
    /\ call' = [op |-> "main"]
    /\ ret' = NoCall
    /\ UNCHANGED <<clock, split_vars, sect_vars>>

\* the process ends, by a crash or a shutdown, between two tool calls
Exit ==
    /\ up
    /\ up' = FALSE
    /\ index' = NoIndex
    /\ call' = NoCall
    /\ ret' = NoCall
    /\ log' = <<>>
    /\ UNCHANGED <<persist_dir, clock, split_vars, sect_vars>>

Commit(w) ==
    /\ index' = w.index
    /\ persist_dir' = w.persist_dir
    /\ log' = w.log

\* --- kb_add_text --------------------------------------------------------

AddText(req, now, bound) ==
    /\ up
    /\ now >= clock
    /\ clock' = now
    /\ Len(index.vector_store) + 1 <= bound
    /\ LET meta == Merge([source_id |-> req.source_id, added_at |-> now], req.extra_metadata)
           w    == persist(IndexInsert(World, [text |-> req.text, metadata |-> meta]))
       IN  Commit(w)
    /\ call' = [op |-> "kb_add_text", args |-> req]
    /\ ret' = [ok |-> TRUE, source_id |-> req.source_id]
    /\ UNCHANGED <<up, split_vars, sect_vars>>

kb_add_text == \E req \in TextRequests : \E now \in Times : AddText(req, now, MaxUnits)

\* --- kb_add_html --------------------------------------------------------

\* the metadata of chunk i of a section
HtmlMeta(req, now, path, i) ==
    Merge([url |-> req.url,
           source_id |-> req.url,
           page_title |-> IF req.page_title # NoTitle THEN req.page_title ELSE <<>>,
           heading_path |-> path,
           heading |-> IF path # <<>> THEN path[Len(path)] ELSE <<>>,
           section_id |-> _stable_id(<<req.url, Join(<<" ", "/", " ">>, path), Str(i)>>),
           chunk_index |-> i,
           added_at |-> now],
          req.extra_metadata)

\* the inner for loop on a counter that runs on from section to section
RECURSIVE InsertChunksRunningIndex(_, _, _, _, _, _)
InsertChunksRunningIndex(acc, req, now, path, cs, i) ==
    IF i >= Len(cs) THEN acc
    ELSE InsertChunksRunningIndex(
             [w |-> IndexInsert(acc.w, [text |-> cs[i + 1],
                                        metadata |-> HtmlMeta(req, now, path, acc.inserted)]),
              inserted |-> acc.inserted + 1],
             req, now, path, cs, i + 1)

\* for i, chunk in enumerate(split_text(sec["text"])): ..., from chunk i on
RECURSIVE InsertChunks(_, _, _, _, _, _)
InsertChunks(acc, req, now, path, cs, i) ==
    IF i >= Len(cs) THEN acc
    ELSE InsertChunks(
             [w |-> IndexInsert(acc.w, [text |-> cs[i + 1],
                                        metadata |-> HtmlMeta(req, now, path, i)]),
              inserted |-> acc.inserted + 1],
             req, now, path, cs, i + 1)

\* html_to_sections(html) of the documents of HtmlRequests, computed once
SectionsOf == [d \in {r.html : r \in HtmlRequests} |-> html_to_sections(d)]

\* split_text(sec["text"]) of the sections of those documents, computed once
ChunksOf ==
    [t \in UNION {{SectionsOf[d][k].text : k \in 1..Len(SectionsOf[d])} : d \in DOMAIN SectionsOf}
        |-> split_text(t, DefaultMaxChars, DefaultOverlap)]

\* for sec in sections: ..., from section k on
RECURSIVE InsertSections(_, _, _, _, _)
InsertSections(acc, req, now, secs, k) ==
    IF k > Len(secs) THEN acc
    ELSE InsertSections(
             InsertChunks(acc, req, now, secs[k].heading_path, ChunksOf[secs[k].text], 0),
             req, now, secs, k + 1)

\* the body of kb_add_html up to its return
AddHtmlBody(w, req, now) ==
    LET acc == InsertSections([w |-> w, inserted |-> 0], req, now, SectionsOf[req.html], 1)
    IN  [w |-> persist(acc.w), inserted |-> acc.inserted]

AddHtml(req, now, bound) ==
    /\ up
    /\ now >= clock
    /\ clock' = now
    /\ LET done == AddHtmlBody(World, req, now)
       IN  /\ Len(done.w.index.vector_store) <= bound
           /\ Commit(done.w)
           /\ ret' = [ok |-> TRUE, url |-> req.url, chunks |-> done.inserted]
    /\ call' = [op |-> "kb_add_html", args |-> req]
    /\ UNCHANGED <<up, split_vars, sect_vars>>

kb_add_html == \E req \in HtmlRequests : \E now \in Times : AddHtml(req, now, MaxUnits)

\* --- kb_search ----------------------------------------------------------

\* max(1, min(top_k, 20)) without its cap of 20
SimilarityTopKUncapped(top_k) == Max2(1, top_k)

\* similarity_top_k=max(1, min(top_k, 20))
SimilarityTopK(top_k) == Max2(1, Min2(top_k, TopKMax))

\* retriever.retrieve(query): at most k nodes, as many as the index has rows
\* for; which ones the embedding decides, the first rows stand for them
Retrieve(ix, k) == SubSeq(ix.vector_store, 1, Min2(k, Len(ix.vector_store)))

Search(query, top_k) ==
    /\ up
    /\ LET k     == SimilarityTopK(top_k)
           nodes == Retrieve(index, k)
       IN  /\ log' = <<[ev |-> "retrieve", node |-> k]>>
           /\ ret' = [ok |-> TRUE,
                      results |-> [i \in 1..Len(nodes) |->
                          [node_id |-> nodes[i],
                           text |-> Take(index.docstore[nodes[i]].text, PreviewLimit),
                           metadata |-> index.docstore[nodes[i]].metadata]]]
    /\ call' = [op |-> "kb_search", args |-> [query |-> query, top_k |-> top_k]]
    /\ UNCHANGED <<up, index, persist_dir, clock, split_vars, sect_vars>>

kb_search == \E top_k \in {1, 5} : Search(<<"q">>, top_k)

\* --- kb_quote -----------------------------------------------------------

\* str(e) of the docstore's error for a node id it does not hold
NotFound(node_id) == <<"doc_id ">> \o Str(node_id) \o <<" not found.">>

\* kb_quote answering any id from the newest node
QuoteNewest(node_id) ==
    /\ up
    /\ ret' = IF index.vector_store # <<>>
              THEN LET node == index.docstore[index.vector_store[Len(index.vector_store)]]
                   IN  [ok |-> TRUE, text |-> Take(node.text, QuoteLimit),
                        metadata |-> node.metadata]
              ELSE [ok |-> FALSE, error |-> NotFound(node_id)]
    /\ call' = [op |-> "kb_quote", args |-> [node_id |-> node_id]]
    /\ log' = <<>>
    /\ UNCHANGED <<up, index, persist_dir, clock, split_vars, sect_vars>>

Quote(node_id) ==
    /\ up
    /\ ret' = IF node_id \in DOMAIN index.docstore
              THEN [ok |-> TRUE,
                    text |-> Take(index.docstore[node_id].text, QuoteLimit),
                    metadata |-> index.docstore[node_id].metadata]
              ELSE [ok |-> FALSE, error |-> NotFound(node_id)]
    /\ call' = [op |-> "kb_quote", args |-> [node_id |-> node_id]]
    /\ log' = <<>>
    /\ UNCHANGED <<up, index, persist_dir, clock, split_vars, sect_vars>>

\* the id of the first node and an id no node has
kb_quote == \E node_id \in {1, MaxUnits + 1} : Quote(node_id)

Next == Open \/ Exit \/ kb_add_text \/ kb_add_html \/ kb_search \/ kb_quote

Spec == Init /\ [][Next]_vars


\* --- the index filled for searching ---------------------------------------

FillRequest == [source_id |-> <<"s">>, text |-> <<"h", "i">>, extra_metadata |-> NoExtra]

SearchTopKs == {-3, 0, 1, 5, 20, 21, 50}

\* kb_add_text, as often as MaxSearchUnits lets it
SearchFill == AddText(FillRequest, clock, MaxSearchUnits)

SearchAny == \E top_k \in SearchTopKs : Search(<<"q">>, top_k)

NextSearch == Open \/ SearchFill \/ SearchAny

SpecSearch == Init /\ [][NextSearch]_vars

\* --- claims about the index and the tools ---------------------------------

\* the index persist_dir holds
Durable == [vector_store |-> persist_dir.faiss_index, docstore |-> persist_dir.docstore]

Persisted == persist_dir.faiss_exists /\ persist_dir.store_exists

\* the nodes the tool call served last inserted, in the order of its inserts
Inserted ==
    LET ins == SelectSeq(log, LAMBDA e : e.ev = "insert")
    IN  [i \in 1..Len(ins) |-> ins[i].node]

IsPrefix(a, b) == Len(a) <= Len(b) /\ SubSeq(b, 1, Len(a)) = a

\* every node of docstore d is a node of docstore e, unchanged
Kept(d, e) == \A id \in DOMAIN d : id \in DOMAIN e /\ e[id] = d[id]

C1_DurableIsIndex == up => (Persisted /\ Durable = index)

C2_OpenStep ==
    (~up /\ up') =>
        IF persist_dir.faiss_exists
        THEN index' = Durable /\ persist_dir' = persist_dir
        ELSE /\ index' = NoIndex
             /\ persist_dir' = [faiss_exists |-> TRUE, faiss_index |-> <<>>,
                                store_exists |-> TRUE, docstore |-> <<>>]

C2_AppendStep ==
    (up /\ up') =>
        /\ IsPrefix(index.vector_store, index'.vector_store)
        /\ Kept(index.docstore, index'.docstore)

C2_ExitStep == (up /\ ~up') => persist_dir' = persist_dir

\* C2: a start on a persist_dir without a persisted index gives an empty
\* index and leaves persist_dir persisted at once; a start on a persist_dir
\* that holds one gives exactly the rows and nodes persisted there; every tool
\* call of a run appends to the rows and nodes the index had, dropping and
\* replacing none; and the end of a run leaves persist_dir as it is.
C2_CreateOrReopen == [][C2_OpenStep /\ C2_AppendStep /\ C2_ExitStep]_vars

\* a later run has loaded the units earlier runs persisted
C2_Witness ==
    /\ up
    /\ call.op = "main"
    /\ log = <<>>
    /\ Len(index.vector_store) = 3
    /\ Durable = index

\* stable_id(url, joined path, str(chunk_index)) written out
ExpectedSectionId(url, path, i) ==
    url \o <<NUL>> \o Join(<<" ", "/", " ">>, path) \o <<NUL>> \o Str(i) \o <<NUL>>

\* every unit the last call inserted carries the section_id of its own url,
\* heading_path and chunk_index
InsertedCarryStableId ==
    \A i \in 1..Len(Inserted) :
        LET m == index.docstore[Inserted[i]].metadata
        IN  m.section_id = ExpectedSectionId(m.url, m.heading_path, m.chunk_index)

\* C7 as stated: every unit kb_add_html stores, with any page_title and any
\* extra_metadata, carries section_id = stable_id(url, heading_path joined by
\* " / ", str(chunk_index)).
C7_StableIdAnyExtra ==
    (up /\ call.op = "kb_add_html") => InsertedCarryStableId

\* the keys of extra_metadata that replace a part of the citation key
CitationKeys == {"section_id", "url", "heading_path", "chunk_index"}

\* C7 as amended: every unit kb_add_html stores, with any page_title and any
\* extra_metadata that has none of the keys section_id, url, heading_path and
\* chunk_index, carries the url of the call and section_id = stable_id(url,
\* heading_path joined by " / ", str(chunk_index)), whatever the time of the
\* call and whatever the index held before.
C7_StableIdUnlessOverridden ==
    (up /\ call.op = "kb_add_html"
        /\ DOMAIN call.args.extra_metadata \cap CitationKeys = {}) =>
        /\ InsertedCarryStableId
        /\ \A i \in 1..Len(Inserted) :
              index.docstore[Inserted[i]].metadata.url = call.args.url

\* the same one-section document was ingested twice under one url, at two
\* times, and both units carry one section_id
C7_Witness ==
    /\ up
    /\ call.op = "kb_add_html"
    /\ DOMAIN call.args.extra_metadata \cap CitationKeys = {}
    /\ Len(Inserted) = 1
    /\ \E id \in DOMAIN index.docstore :
          /\ id # Inserted[1]
          /\ "section_id" \in DOMAIN index.docstore[id].metadata
          /\ index.docstore[id].metadata.section_id =
                index.docstore[Inserted[1]].metadata.section_id
          /\ index.docstore[id].metadata.added_at #
                index.docstore[Inserted[1]].metadata.added_at

C9_Reply ==
    (up /\ call.op = "kb_quote") =>
        LET id == call.args.node_id
        IN  IF id \in DOMAIN index.docstore
            THEN LET full == index.docstore[id].text
                 IN  /\ ret.ok = TRUE
                     /\ Len(ret.text) = (IF Len(full) > 4000 THEN 4000 ELSE Len(full))
                     /\ ret.text = SubSeq(full, 1, Len(ret.text))
                     /\ ret.metadata = index.docstore[id].metadata
            ELSE /\ ret.ok = FALSE
                 /\ ret.error # <<>>

\* C9: kb_quote of an id the docstore does not hold returns ok false with a
\* non-empty error; of an id it holds, ok true with that node's text cut to
\* 4000 characters and its metadata; and either way the index object and
\* persist_dir stay as they were.
C9_QuoteNotFound ==
    /\ [](C9_Reply)
    /\ [][call'.op = "kb_quote" => (index' = index /\ persist_dir' = persist_dir)]_vars

\* an id no node has was quoted on an index that holds nodes
C9_Witness ==
    /\ up
    /\ call.op = "kb_quote"
    /\ call.args.node_id \notin DOMAIN index.docstore
    /\ index.vector_store # <<>>
    /\ ret.ok = FALSE

\* the chunk_index of every unit of a document: 0, 1, ... within each section
RECURSIVE ExpectedIndexes(_, _)
ExpectedIndexes(secs, k) ==
    IF k > Len(secs) THEN <<>>
    ELSE [i \in 1..Len(ChunksOf[secs[k].text]) |-> i - 1] \o ExpectedIndexes(secs, k + 1)

RECURSIVE ExpectedTexts(_, _)
ExpectedTexts(secs, k) ==
    IF k > Len(secs) THEN <<>>
    ELSE ChunksOf[secs[k].text] \o ExpectedTexts(secs, k + 1)

C10_Calls ==
    (up /\ call.op = "kb_add_html") =>
        LET secs == SectionsOf[call.args.html]
            n    == Len(ExpectedIndexes(secs, 1))
        IN  /\ ret.chunks = n
            /\ Len(log) = n + 1
            /\ \A i \in 1..n : log[i].ev = "insert"
            /\ log[n + 1].ev = "persist"
            /\ \A i \in 1..n : \A j \in 1..n : i # j => log[i].node # log[j].node
            /\ \A i \in 1..n :
                  index.docstore[log[i].node].text = ExpectedTexts(secs, 1)[i]
            /\ "chunk_index" \notin DOMAIN call.args.extra_metadata =>
                  \A i \in 1..n :
                      index.docstore[log[i].node].metadata.chunk_index =
                          ExpectedIndexes(secs, 1)[i]

C10_Growth ==
    call'.op = "kb_add_html" =>
        /\ Len(index'.vector_store) = Len(index.vector_store) + ret'.chunks
        /\ Cardinality(DOMAIN index'.docstore) =
              Cardinality(DOMAIN index.docstore) + ret'.chunks
        /\ IsPrefix(index.vector_store, index'.vector_store)
        /\ Kept(index.docstore, index'.docstore)

\* C10: kb_add_html inserts one unit per chunk of each section, in order,
\* with chunk_index counting from 0 in each section, calls persist once,
\* after the last insert, and returns the number of inserts as chunks; the
\* index grows by that number and every unit it held stays as it was, also
\* when the same url and html were ingested before.
C10_HtmlIngestion == [](C10_Calls) /\ [][C10_Growth]_vars

\* a document of a two-chunk section and a one-chunk section was ingested
C10_Witness ==
    /\ up
    /\ call.op = "kb_add_html"
    /\ ret.chunks = 3
    /\ Len(log) = 4
    /\ index.docstore[log[1].node].metadata.chunk_index = 0
    /\ index.docstore[log[2].node].metadata.chunk_index = 1
    /\ index.docstore[log[3].node].metadata.chunk_index = 0
    /\ Len(index.docstore[log[1].node].text) = DefaultMaxChars - 1

\* --- claims about kb_search ---------------------------------------------

SearchAsked(k) == log = <<[ev |-> "retrieve", node |-> k]>>

TopKClamped(top_k) == IF top_k < 1 THEN 1 ELSE IF top_k > 20 THEN 20 ELSE top_k

\* C8 as stated: for every top_k and every index, kb_search asks for
\* max(1, min(top_k, 20)) neighbours and returns at most 20 results and at
\* least 1.
C8_OneToTwentyResults ==
    (up /\ call.op = "kb_search") =>
        /\ SearchAsked(TopKClamped(call.args.top_k))
        /\ Len(ret.results) <= 20
        /\ Len(ret.results) >= 1

\* C8 as amended: for every top_k and every index, kb_search asks for
\* max(1, min(top_k, 20)) neighbours and returns as many results as it asked
\* for or as the index has units, whichever is less: at most 20, at least 1
\* when the index holds a unit, and none when it is empty.
C8_AtMostTwentyResults ==
    (up /\ call.op = "kb_search") =>
        LET k == TopKClamped(call.args.top_k)
            n == Len(index.vector_store)
        IN  /\ SearchAsked(k)
            /\ Len(ret.results) = (IF k <= n THEN k ELSE n)
            /\ Len(ret.results) <= 20
            /\ (n >= 1 => Len(ret.results) >= 1)

\* 50 results were asked of an index of more than 20 units
C8_Witness ==
    /\ up
    /\ call.op = "kb_search"
    /\ call.args.top_k = 50
    /\ Len(index.vector_store) > 20
    /\ Len(ret.results) = 20

====
